---- MODULE Spec2Model ----
(***************************************************************************)
(* Connect Four (calico32/connect-four): the board, the drop/reset/select  *)
(* handlers, the convolution win detector and the input loop of            *)
(* src/main.py, as a state machine.                                        *)
(***************************************************************************)
EXTENDS Integers, Sequences, FiniteSets, TLC

\* ------------------------------------------------------------ constants
\* class Color
RED == 1
YELLOW == 2
\* Python's None (an empty cell, no winner)
None == 0
\* Board.winner is -1 on a tie
TIE == 0 - 1
\* _find_column_top's initial accumulator: what a full column yields
NOT_FOUND == 9999

BOARD_WIDTH == 7
BOARD_HEIGHT == 6
DRAWING_HEIGHT == (BOARD_HEIGHT - 1) * 2 + 2
DRAWING_WIDTH == BOARD_WIDTH * 6 + 2

Colors == {RED, YELLOW}
ColIdx == 0 .. (BOARD_WIDTH - 1)
RowIdx == 0 .. (BOARD_HEIGHT - 1)

\* ------------------------------------------------------------ bounds
\* successful drops the model follows in one round from its initial board
MaxDrops == 2

\* ------------------------------------------------------------ kernels
\* np.array([[1, 1, 1, 1]]): one row of four
horizontal_kernel == << <<1, 1, 1, 1>> >>

\* np.transpose
Transpose(k) ==
    [b \in 1 .. Len(k[1]) |-> [a \in 1 .. Len(k) |-> k[a][b]]]

vertical_kernel == Transpose(horizontal_kernel)

\* np.eye(4)
diag1_kernel == [a \in 1 .. 4 |-> [b \in 1 .. 4 |-> IF a = b THEN 1 ELSE 0]]

\* np.fliplr: reverse every row
Fliplr(k) ==
    [a \in 1 .. Len(k) |-> [b \in 1 .. Len(k[a]) |-> k[a][Len(k[a]) + 1 - b]]]

\* faulty variant: the second diagonal kernel is not mirrored
diag2_not_flipped == diag1_kernel

diag2_kernel == Fliplr(diag1_kernel)

detection_kernels ==
    <<horizontal_kernel, vertical_kernel, diag1_kernel, diag2_kernel>>

\* ------------------------------------------------------------ board
\* make_board(): cols[x][y], BOARD_WIDTH columns of BOARD_HEIGHT cells
make_board == [c \in ColIdx |-> [r \in RowIdx |-> None]]

\* faulty variant: the reduce joins the columns with "or"
_is_full_any(board) == \E c \in ColIdx : board[c][BOARD_HEIGHT - 1] # None

\* Board._is_full: reduce over the columns of "top cell is not None and a"
_is_full(board) == \A c \in ColIdx : board[c][BOARD_HEIGHT - 1] # None

\* Board._find_column_top: reduce(find, reversed(enumerate(col)), 9999).
\* find replaces the accumulator by the index of every empty cell it meets,
\* walking from the top index down to 0.
RECURSIVE find_from(_, _, _)
find_from(col, i, last) ==
    IF i < 0 THEN last
    ELSE find_from(col, i - 1, IF col[i] = None THEN i ELSE last)

\* faulty variant: the enumeration is not reversed, so the last empty cell met is
\* the highest one
_find_column_top_upward(col) ==
    IF \E r \in RowIdx : col[r] = None
    THEN CHOOSE r \in RowIdx :
            col[r] = None /\ \A q \in RowIdx : q > r => col[q] # None
    ELSE NOT_FOUND

_find_column_top(col) == find_from(col, BOARD_HEIGHT - 1, NOT_FOUND)

\* faulty variant: the mask marks the cells of the other color
_mask_board_inverted(board, color) ==
    [c \in ColIdx |->
        [r \in RowIdx |->
            IF board[c][r] # None /\ board[c][r] # color THEN 1 ELSE 0]]

\* Board._mask_board
_mask_board(board, color) ==
    [c \in ColIdx |-> [r \in RowIdx |-> IF board[c][r] = color THEN 1 ELSE 0]]

\* one output cell of the convolution: the sum over the kernel's cells (a, b)
\* of mask[i+a][j+b] times the kernel flipped on both axes.  Masks and
\* kernels hold only 0 and 1, so the sum is the number of products equal to 1.
conv_cell(mask, kernel, kr, kc, i, j) ==
    Cardinality({p \in (0 .. (kr - 1)) \X (0 .. (kc - 1)) :
                    mask[i + p[1]][j + p[2]] * kernel[kr - p[1]][kc - p[2]] = 1})

\* scipy.signal.convolve2d(mask, kernel, mode="valid"): a true convolution,
\* no padding, so the output has BOARD_WIDTH - kr + 1 by BOARD_HEIGHT - kc + 1
\* cells for a kr by kc kernel.
convolve2d(mask, kernel) ==
    LET kr == Len(kernel)
        kc == Len(kernel[1])
    IN  [i \in 0 .. (BOARD_WIDTH - kr) |->
            [j \in 0 .. (BOARD_HEIGHT - kc) |->
                conv_cell(mask, kernel, kr, kc, i, j)]]

\* faulty variant: three in a line are taken for a win
KernelHit_three(mask, kernel) ==
    LET out == convolve2d(mask, kernel)
    IN  \E i \in DOMAIN out : \E j \in DOMAIN out[i] : out[i][j] >= 3

\* (convolve2d(mask, kernel, mode="valid") == 4).any()
KernelHit(mask, kernel) ==
    LET out == convolve2d(mask, kernel)
    IN  \E i \in DOMAIN out : \E j \in DOMAIN out[i] : out[i][j] = 4

\* faulty variant: the tie test is missing
check_kernels_no_tie(red_mask, yellow_mask, full, k) ==
    IF \E n \in k .. Len(detection_kernels) :
          KernelHit(red_mask, detection_kernels[n])
          \/ KernelHit(yellow_mask, detection_kernels[n])
    THEN LET n == CHOOSE n \in k .. Len(detection_kernels) :
                    /\ KernelHit(red_mask, detection_kernels[n])
                       \/ KernelHit(yellow_mask, detection_kernels[n])
                    /\ \A m \in k .. (n - 1) :
                          /\ ~KernelHit(red_mask, detection_kernels[m])
                          /\ ~KernelHit(yellow_mask, detection_kernels[m])
         IN  IF KernelHit(red_mask, detection_kernels[n]) THEN RED ELSE YELLOW
    ELSE None

\* Board._check_win: kernels in order, red before yellow for each kernel,
\* then the tie test.
RECURSIVE check_kernels(_, _, _, _)
check_kernels(red_mask, yellow_mask, full, k) ==
    IF k > Len(detection_kernels) THEN
        IF full THEN TIE ELSE None
    ELSE IF KernelHit(red_mask, detection_kernels[k]) THEN RED
    ELSE IF KernelHit(yellow_mask, detection_kernels[k]) THEN YELLOW
    ELSE check_kernels(red_mask, yellow_mask, full, k + 1)

_check_win(board) ==
    check_kernels(_mask_board(board, RED), _mask_board(board, YELLOW),
                  _is_full(board), 1)

\* ------------------------------------------------------------ rendering
\* A screen.addstr(y, x, text) call is <<y, x, len(text)>>.  curses raises
\* curses.error when the position is outside the window or when the text
\* (wrapping at the right margin) runs into the lower-right corner.
AddstrRaises(call, h, w) ==
    \/ call[1] < 0 \/ call[1] >= h
    \/ call[2] < 0 \/ call[2] >= w
    \/ call[3] > 0 /\ call[1] * w + call[2] + call[3] >= h * w

Raises(calls, h, w) == \E call \in calls : AddstrRaises(call, h, w)

Max0(n) == IF n < 0 THEN 0 ELSE n

\* number of decimal characters of str(c)
StrLen(c) ==
    IF c < 0 THEN 2 ELSE IF c < 10 THEN 1 ELSE IF c < 100 THEN 2 ELSE 3

NoStatus == <<>>

\* len(f'Unknown input: {...}'), 0 for no message
StatusLen(status) ==
    IF status = NoStatus THEN 0
    ELSE 15 + (IF 0 < status[2] /\ status[2] < 255 THEN 1 ELSE StrLen(status[2]))

\* Token.draw(y, x, screen): two rows of three characters
TokenCalls(y, x) == {<<y, x, 3>>, <<y + 1, x, 3>>}

\* Board.draw_ui: header and footer bars, and the status message if any
draw_ui_calls(h, w, status) ==
    {<<0, 1, Max0(w - 2)>>, <<0, 3, 12>>, <<0, w - 35 - 3, 35>>,
     <<h - 1, 1, Max0(w - 2)>>, <<h - 1, 3, 19>>}
    \cup (IF status # NoStatus
          THEN {<<h - 1, w - StatusLen(status) - 3, StatusLen(status)>>}
          ELSE {})

\* Board.draw_board
draw_board_calls(h, w, hide_turn, board, sel, turn, win) ==
    LET top_left_y == (h \div 2) - (DRAWING_HEIGHT \div 2)
        top_left_x == (w \div 2) - (DRAWING_WIDTH \div 2)
        mid == top_left_x + (DRAWING_WIDTH \div 2)
        win_len == IF win = RED THEN 9 ELSE 12
        turn_len == IF turn = RED THEN 20 ELSE 23
        message ==
            IF hide_turn THEN
                {<<top_left_y - 2, top_left_x, DRAWING_WIDTH>>,
                 <<top_left_y - 1, top_left_x, DRAWING_WIDTH>>}
            ELSE IF win # None THEN
                (IF win = TIE
                 THEN {<<top_left_y - 2, mid - 6, 12>>}
                 ELSE {<<top_left_y - 2, mid - (win_len \div 2), win_len>>,
                       <<top_left_y - 2, mid - (win_len \div 2), win_len - 6>>})
                \cup {<<top_left_y - 1, mid - 12, 25>>}
            ELSE
                {<<top_left_y - 2, mid - (turn_len \div 2), turn_len>>,
                 <<top_left_y - 2, mid - (turn_len \div 2), turn_len - 17>>,
                 <<top_left_y - 1, top_left_x + sel * 6 + 3, 1>>}
        frame ==
            {<<top_left_y + i, top_left_x, BOARD_WIDTH * 6 + 1>> :
                i \in 0 .. (DRAWING_HEIGHT + 1)}
        tokens ==
            UNION {TokenCalls(top_left_y + 1 + (BOARD_HEIGHT - 1 - r) * 2,
                              top_left_x + 2 + c * 6) :
                      <<c, r>> \in {p \in ColIdx \X RowIdx : board[p[1]][p[2]] # None}}
    IN  message \cup frame \cup tokens

\* Board.draw: nothing below 3x10, only the three message lines below the
\* drawing size, otherwise bars and board
draw_calls(h, w, board, sel, turn, win, status) ==
    IF h < 3 \/ w < 10 THEN {}
    ELSE IF h < DRAWING_HEIGHT + 6 \/ w < DRAWING_WIDTH + 20
    THEN {<<0, 0, 17>>, <<1, 0, 24>>, <<2, 0, 24>>}
    ELSE draw_ui_calls(h, w, status)
         \cup draw_board_calls(h, w, FALSE, board, sel, turn, win)

\* the unguarded drawing of drop_token: bars, board and one token per frame
\* from start_y down to destination_y
drop_calls(h, w, board, sel, turn, win, status, destination_row) ==
    LET top_left_y == (h \div 2) - (DRAWING_HEIGHT \div 2)
        top_left_x == (w \div 2) - (DRAWING_WIDTH \div 2)
        start_y == top_left_y - 1
        destination_y == top_left_y + 1 + (BOARD_HEIGHT - 1 - destination_row) * 2
        x == top_left_x + 2 + sel * 6
    IN  draw_ui_calls(h, w, status)
        \cup draw_board_calls(h, w, TRUE, board, sel, turn, win)
        \cup UNION {TokenCalls(y, x) : y \in start_y .. destination_y}

\* ------------------------------------------------------------ state
VARIABLES
    cols,            \* Board.cols[x][y]: None, RED or YELLOW
    selected_column, \* Board.selected_column
    current_turn,    \* Board.current_turn
    game_over,       \* Board.game_over
    winner,          \* Board.winner: None, RED, YELLOW or TIE
    lock,            \* Board.lock
    status_message,  \* Board.status_message: NoStatus or <<"Unknown input", c>>
    screen_size,     \* screen.getmaxyx(): <<height, width>>
    pc,              \* main: "getch" (waiting for a key), "returned" (get_input
                     \* returned False), "exited", "crashed"
    op,              \* the Board method the key just handled ran
    result,          \* what it returned: "True", "False", "None", "Raised"
    detected,        \* <<v>>: _check_win returned v in that call; else <<>>
    placed,          \* per column: tokens written since the last reset
    drops,           \* tokens written in this round since the initial state
    typeahead,       \* the terminal's input queue: keys typed while a handler
                     \* ran, which the next getch calls return in order
    cleanups,        \* how many times cleanup() (curses.endwin) was called
    drawn            \* what the handler that just ran issued addstr calls
                     \* for: "message", "ui", "board", "token"

vars ==
    <<cols, selected_column, current_turn, game_over, winner, lock,
      status_message, screen_size, pc, op, result, detected, placed, drops,
      typeahead, cleanups, drawn>>

\* terminal sizes the model tries: large enough; below the drawing size;
\* too small for the three message lines; below the minimum
ScreenSizes == {<<24, 80>>, <<17, 64>>, <<3, 10>>, <<2, 9>>}

\* raw key codes that get_input maps to nothing: "x", an invalid UTF-8
\* byte, and a three-digit curses key
UnknownKeys == {120, 200, 339}

Other(color) == IF color = RED THEN YELLOW ELSE RED

\* faulty variant: the token is written into the column's top row
write_token_at_top(board, column, color) ==
    [board EXCEPT ![column][BOARD_HEIGHT - 1] = color]

\* faulty variant: the token is written one row below the lowest empty one
write_token_below(board, column, color) ==
    [board EXCEPT ![column][Max0(_find_column_top(board[column]) - 1)] = color]

\* drop_token's write: col[destination_row] = Token(current_turn), with
\* destination_row = _find_column_top(col)
write_token(board, column, color) ==
    [board EXCEPT ![column][_find_column_top(board[column])] = color]

\* whether draw() raises, for the state given
DrawRaises(size, board, sel, turn, win, status) ==
    Raises(draw_calls(size[1], size[2], board, sel, turn, win, status),
           size[1], size[2])

\* Board.draw: what it paints for a terminal of the given size
draw_layers(size) ==
    IF size[1] < 3 \/ size[2] < 10 THEN {}
    ELSE IF size[1] < DRAWING_HEIGHT + 6 \/ size[2] < DRAWING_WIDTH + 20
    THEN {"message"}
    ELSE {"ui", "board"}

\* main's first board.draw(), outside its try block: where main is after it
FirstDraw ==
    IF DrawRaises(screen_size, cols, selected_column, current_turn, winner,
                  status_message)
    THEN "crashed" ELSE "getch"

\* main(): initscr, init, Board(screen), board.draw().  Board.__init__ and
\* the class attribute selected_column.
Init ==
    /\ cols = make_board
    /\ selected_column = BOARD_WIDTH \div 2
    /\ current_turn \in Colors
    /\ game_over = FALSE
    /\ winner = None
    /\ lock = FALSE
    /\ status_message = NoStatus
    /\ screen_size \in ScreenSizes
    /\ pc = FirstDraw
    /\ op = "none"
    /\ result = "None"
    /\ detected = <<>>
    /\ placed = [c \in ColIdx |-> 0]
    /\ drops = 0
    /\ typeahead = <<>>
    /\ cleanups = 0
    /\ drawn = draw_layers(screen_size)

\* the state a handler leaves when it raises or returns without writing
Frame(o, r, locked, status, next_pc) ==
    /\ op' = o
    /\ result' = r
    /\ lock' = locked
    /\ status_message' = status
    /\ pc' = next_pc
    /\ detected' = <<>>
    /\ UNCHANGED <<cols, selected_column, current_turn, game_over, winner,
                   screen_size, placed, drops>>

\* faulty variant: the turn is not advanced after a drop that ends nothing
finish_drop_keeps_turn(written, won) ==
    LET win_after == IF won # None THEN won ELSE winner
        raises == DrawRaises(screen_size, written, selected_column, current_turn,
                             win_after, status_message)
    IN  /\ cols' = written
        /\ placed' = [placed EXCEPT ![selected_column] = @ + 1]
        /\ drops' = drops + 1
        /\ detected' = <<won>>
        /\ op' = "drop_token"
        /\ current_turn' = current_turn
        /\ winner' = win_after
        /\ game_over' = IF won # None THEN TRUE ELSE game_over
        /\ lock' = IF won # None THEN TRUE ELSE raises
        /\ result' = IF raises THEN "Raised" ELSE "True"
        /\ pc' = IF raises THEN "crashed" ELSE "returned"
        /\ UNCHANGED <<selected_column, status_message, screen_size>>

\* faulty variant: the board is unlocked after every drop, a winning one included
finish_drop_unlocks(written, won) ==
    LET turn_after == IF won # None THEN current_turn ELSE Other(current_turn)
        win_after == IF won # None THEN won ELSE winner
        raises == DrawRaises(screen_size, written, selected_column, turn_after,
                             win_after, status_message)
    IN  /\ cols' = written
        /\ placed' = [placed EXCEPT ![selected_column] = @ + 1]
        /\ drops' = drops + 1
        /\ detected' = <<won>>
        /\ op' = "drop_token"
        /\ current_turn' = turn_after
        /\ winner' = win_after
        /\ game_over' = IF won # None THEN TRUE ELSE game_over
        /\ lock' = raises
        /\ result' = IF raises THEN "Raised" ELSE "True"
        /\ pc' = IF raises THEN "crashed" ELSE "returned"
        /\ UNCHANGED <<selected_column, status_message, screen_size>>

\* faulty variant: a reported win does not end the round; the turn
\* advances and the board is unlocked after every drop
finish_drop_plays_on(written, won) ==
    LET raises == DrawRaises(screen_size, written, selected_column,
                             Other(current_turn), winner, status_message)
    IN  /\ cols' = written
        /\ placed' = [placed EXCEPT ![selected_column] = @ + 1]
        /\ drops' = drops + 1
        /\ detected' = <<won>>
        /\ op' = "drop_token"
        /\ current_turn' = Other(current_turn)
        /\ winner' = winner
        /\ game_over' = (won = TIE)
        /\ lock' = (won = TIE \/ raises)
        /\ result' = IF raises THEN "Raised" ELSE "True"
        /\ pc' = IF raises THEN "crashed" ELSE "returned"
        /\ UNCHANGED <<selected_column, status_message, screen_size>>

\* faulty variant: the tie value does not count as an outcome in the test
\* of _check_win's result
finish_drop_tie_falsy(written, won) ==
    LET ended == won # None /\ won # TIE
        turn_after == IF ended THEN current_turn ELSE Other(current_turn)
        win_after == IF ended THEN won ELSE winner
        raises == DrawRaises(screen_size, written, selected_column, turn_after,
                             win_after, status_message)
    IN  /\ cols' = written
        /\ placed' = [placed EXCEPT ![selected_column] = @ + 1]
        /\ drops' = drops + 1
        /\ detected' = <<won>>
        /\ op' = "drop_token"
        /\ current_turn' = turn_after
        /\ winner' = win_after
        /\ game_over' = IF ended THEN TRUE ELSE game_over
        /\ lock' = IF ended THEN TRUE ELSE raises
        /\ result' = IF raises THEN "Raised" ELSE "True"
        /\ pc' = IF raises THEN "crashed" ELSE "returned"
        /\ UNCHANGED <<selected_column, status_message, screen_size>>

\* the rest of drop_token once the animation is over: the write, the win
\* check and the two branches on its result (won is _check_win's value)
finish_drop(written, won) ==
    LET turn_after == IF won # None THEN current_turn ELSE Other(current_turn)
        win_after == IF won # None THEN won ELSE winner
        raises == DrawRaises(screen_size, written, selected_column, turn_after,
                             win_after, status_message)
    IN  /\ cols' = written
        /\ placed' = [placed EXCEPT ![selected_column] = @ + 1]
        /\ drops' = drops + 1
        /\ detected' = <<won>>
        /\ op' = "drop_token"
        /\ current_turn' = turn_after
        /\ winner' = win_after
        /\ game_over' = IF won # None THEN TRUE ELSE game_over
        /\ lock' = IF won # None THEN TRUE ELSE raises
        /\ result' = IF raises THEN "Raised" ELSE "True"
        /\ pc' = IF raises THEN "crashed" ELSE "returned"
        /\ UNCHANGED <<selected_column, status_message, screen_size>>

\* faulty variant: the full-column test is missing
drop_token_unchecked ==
    IF lock THEN
        Frame("drop_token", "False", lock, status_message, "returned")
    ELSE IF \/ Raises(drop_calls(screen_size[1], screen_size[2], cols,
                                 selected_column, current_turn, winner,
                                 status_message,
                                 _find_column_top(cols[selected_column])),
                      screen_size[1], screen_size[2])
            \/ _find_column_top(cols[selected_column]) \notin RowIdx THEN
        Frame("drop_token", "Raised", TRUE, status_message, "crashed")
    ELSE
        /\ drops < MaxDrops
        /\ finish_drop(write_token(cols, selected_column, current_turn),
                       _check_win(write_token(cols, selected_column, current_turn)))

\* Board.drop_token
drop_token ==
    IF lock \/ cols[selected_column][BOARD_HEIGHT - 1] # None THEN
        Frame("drop_token", "False", lock, status_message, "returned")
    ELSE IF \/ Raises(drop_calls(screen_size[1], screen_size[2], cols,
                                 selected_column, current_turn, winner,
                                 status_message,
                                 _find_column_top(cols[selected_column])),
                      screen_size[1], screen_size[2])
            \/ _find_column_top(cols[selected_column]) \notin RowIdx THEN
        \* curses.error in the animation, or IndexError on the write
        Frame("drop_token", "Raised", TRUE, status_message, "crashed")
    ELSE
        /\ drops < MaxDrops
        /\ finish_drop(write_token(cols, selected_column, current_turn),
                       _check_win(write_token(cols, selected_column, current_turn)))

\* faulty variant: the loser of the round leads the next one
reset_loser_leads ==
    \E rnd \in Colors :
        LET turn_after == IF winner # None /\ winner # TIE
                          THEN Other(winner) ELSE rnd
            raises == DrawRaises(screen_size, make_board, selected_column,
                                 turn_after, None, NoStatus)
        IN  /\ cols' = make_board
            /\ lock' = FALSE
            /\ game_over' = FALSE
            /\ status_message' = NoStatus
            /\ current_turn' = turn_after
            /\ winner' = None
            /\ placed' = [c \in ColIdx |-> 0]
            /\ drops' = 0
            /\ op' = "reset"
            /\ detected' = <<>>
            /\ result' = IF raises THEN "Raised" ELSE "None"
            /\ pc' = IF raises THEN "crashed" ELSE "returned"
            /\ UNCHANGED <<selected_column, screen_size>>

\* faulty variant: the outcome of the finished round is not cleared
reset_keeps_winner ==
    \E rnd \in Colors :
        LET turn_after == IF winner # None /\ winner # TIE THEN winner ELSE rnd
            raises == DrawRaises(screen_size, make_board, selected_column,
                                 turn_after, winner, NoStatus)
        IN  /\ cols' = make_board
            /\ lock' = FALSE
            /\ game_over' = FALSE
            /\ status_message' = NoStatus
            /\ current_turn' = turn_after
            /\ winner' = winner
            /\ placed' = [c \in ColIdx |-> 0]
            /\ drops' = 0
            /\ op' = "reset"
            /\ detected' = <<>>
            /\ result' = IF raises THEN "Raised" ELSE "None"
            /\ pc' = IF raises THEN "crashed" ELSE "returned"
            /\ UNCHANGED <<selected_column, screen_size>>

\* faulty variant: the board of the finished round is not replaced
reset_keeps_board ==
    \E rnd \in Colors :
        LET turn_after == IF winner # None /\ winner # TIE THEN winner ELSE rnd
            raises == DrawRaises(screen_size, cols, selected_column,
                                 turn_after, None, NoStatus)
        IN  /\ cols' = cols
            /\ lock' = FALSE
            /\ game_over' = FALSE
            /\ status_message' = NoStatus
            /\ current_turn' = turn_after
            /\ winner' = None
            /\ placed' = [c \in ColIdx |-> 0]
            /\ drops' = 0
            /\ op' = "reset"
            /\ detected' = <<>>
            /\ result' = IF raises THEN "Raised" ELSE "None"
            /\ pc' = IF raises THEN "crashed" ELSE "returned"
            /\ UNCHANGED <<selected_column, screen_size>>

\* faulty variant: the cursor is put back on the middle column
reset_recentres ==
    \E rnd \in Colors :
        LET turn_after == IF winner # None /\ winner # TIE THEN winner ELSE rnd
            raises == DrawRaises(screen_size, make_board, (BOARD_WIDTH \div 2),
                                 turn_after, None, NoStatus)
        IN  /\ cols' = make_board
            /\ lock' = FALSE
            /\ game_over' = FALSE
            /\ status_message' = NoStatus
            /\ current_turn' = turn_after
            /\ winner' = None
            /\ placed' = [c \in ColIdx |-> 0]
            /\ drops' = 0
            /\ op' = "reset"
            /\ detected' = <<>>
            /\ result' = IF raises THEN "Raised" ELSE "None"
            /\ pc' = IF raises THEN "crashed" ELSE "returned"
            /\ selected_column' = (BOARD_WIDTH \div 2)
            /\ UNCHANGED screen_size

\* Board.reset
reset ==
    \E rnd \in Colors :
        LET turn_after == IF winner # None /\ winner # TIE THEN winner ELSE rnd
            raises == DrawRaises(screen_size, make_board, selected_column,
                                 turn_after, None, NoStatus)
        IN  /\ cols' = make_board
            /\ lock' = FALSE
            /\ game_over' = FALSE
            /\ status_message' = NoStatus
            /\ current_turn' = turn_after
            /\ winner' = None
            /\ placed' = [c \in ColIdx |-> 0]
            /\ drops' = 0
            /\ op' = "reset"
            /\ detected' = <<>>
            /\ result' = IF raises THEN "Raised" ELSE "None"
            /\ pc' = IF raises THEN "crashed" ELSE "returned"
            /\ UNCHANGED <<selected_column, screen_size>>

\* faulty variant: the lock is not tested before the cursor moves
move_unlocked(name, delta, at_edge) ==
    IF at_edge THEN
        Frame(name, "False", lock, status_message, "returned")
    ELSE
        LET raises == DrawRaises(screen_size, cols, selected_column + delta,
                                 current_turn, winner, status_message)
        IN  /\ selected_column' = selected_column + delta
            /\ op' = name
            /\ detected' = <<>>
            /\ result' = IF raises THEN "Raised" ELSE "True"
            /\ pc' = IF raises THEN "crashed" ELSE "returned"
            /\ UNCHANGED <<cols, current_turn, game_over, winner, lock,
                           status_message, screen_size, placed, drops>>

\* faulty variant: the edge of the board is not tested before the cursor moves
move_unclamped(name, delta, at_edge) ==
    IF lock THEN
        Frame(name, "False", lock, status_message, "returned")
    ELSE
        LET raises == DrawRaises(screen_size, cols, selected_column + delta,
                                 current_turn, winner, status_message)
        IN  /\ selected_column' = selected_column + delta
            /\ op' = name
            /\ detected' = <<>>
            /\ result' = IF raises THEN "Raised" ELSE "True"
            /\ pc' = IF raises THEN "crashed" ELSE "returned"
            /\ UNCHANGED <<cols, current_turn, game_over, winner, lock,
                           status_message, screen_size, placed, drops>>

\* Board.move_left (delta = -1, at the edge when selected_column <= 0) and
\* Board.move_right (delta = 1, at the edge when selected_column >= BOARD_WIDTH - 1)
move(name, delta, at_edge) ==
    IF lock \/ at_edge THEN
        Frame(name, "False", lock, status_message, "returned")
    ELSE
        LET raises == DrawRaises(screen_size, cols, selected_column + delta,
                                 current_turn, winner, status_message)
        IN  /\ selected_column' = selected_column + delta
            /\ op' = name
            /\ detected' = <<>>
            /\ result' = IF raises THEN "Raised" ELSE "True"
            /\ pc' = IF raises THEN "crashed" ELSE "returned"
            /\ UNCHANGED <<cols, current_turn, game_over, winner, lock,
                           status_message, screen_size, placed, drops>>

move_left == move("move_left", 0 - 1, selected_column <= 0)

move_right == move("move_right", 1, selected_column >= BOARD_WIDTH - 1)

\* ------------------------------------------------------------ get_input
\* keys that the model lets be typed while a drop's animation sleeps
TypedKeys == {"left", "enter"}

\* c = board.screen.getch(): the first key of the terminal's input queue,
\* or, the queue being empty, the key pressed now
getch(key) ==
    /\ pc = "getch"
    /\ typeahead \in {<<>>, <<key>>}

\* what drop_token paints between setting the lock and its write: draw_ui,
\* draw_board and the token, as far as no addstr raises
animation_layers ==
    IF Raises(draw_ui_calls(screen_size[1], screen_size[2], status_message),
              screen_size[1], screen_size[2])
    THEN {"ui"}
    ELSE IF Raises(draw_board_calls(screen_size[1], screen_size[2], TRUE, cols,
                                    selected_column, current_turn, winner),
                   screen_size[1], screen_size[2])
    THEN {"ui", "board"}
    ELSE {"ui", "board", "token"}

\* what the handler that has just run painted
painted ==
    CASE op' \in {"move_left", "move_right"} ->
            IF result' = "False" THEN {} ELSE draw_layers(screen_size)
      [] op' = "reset" -> draw_layers(screen_size)
      [] op' = "draw" -> draw_layers(screen_size')
      [] op' = "unknown" ->
            IF result' = "Raised" /\ status_message' = status_message
            THEN {} ELSE {"ui"}
      [] op' = "drop_token" ->
            IF result' = "False" THEN {}
            ELSE IF detected' = <<>> THEN animation_layers
            ELSE {"ui", "board", "token"} \cup draw_layers(screen_size)
      [] OTHER -> {}

\* get_input and main's try block around a handler: the key is taken off
\* the input queue, keys typed during a drop's animation wait in it, and an
\* exception out of the handler reaches "except Exception": cleanup(), raise
handled ==
    /\ typeahead' \in
          IF op' = "drop_token" /\ result' = "True"
          THEN {<<>>} \cup {<<k>> : k \in TypedKeys}
          ELSE {<<>>}
    /\ cleanups' = IF pc' = "crashed" THEN cleanups + 1 ELSE cleanups
    /\ drawn' = painted

\* c == curses.KEY_LEFT
KeyLeft == getch("left") /\ move_left /\ handled

\* c == curses.KEY_RIGHT
KeyRight == getch("right") /\ move_right /\ handled

\* c == curses.KEY_ENTER or c == ord("\n")
KeyEnter == getch("enter") /\ drop_token /\ handled

\* c == ord(" ")
KeySpace ==
    /\ getch("space")
    /\ IF game_over THEN reset ELSE drop_token
    /\ handled

\* c == ord("q"): cleanup, return True, main leaves its loop
KeyQuit ==
    /\ getch("q")
    /\ Frame("quit", "None", lock, status_message, "exited")
    /\ typeahead' = <<>>
    /\ cleanups' = cleanups + 1
    /\ drawn' = {}

\* c == curses.KEY_RESIZE: the window has a new size; board.draw()
KeyResize ==
    /\ getch("resize")
    /\ \E size \in ScreenSizes :
        LET raises == DrawRaises(size, cols, selected_column, current_turn,
                                 winner, status_message)
        IN  /\ screen_size' = size
            /\ op' = "draw"
            /\ detected' = <<>>
            /\ result' = IF raises THEN "Raised" ELSE "None"
            /\ pc' = IF raises THEN "crashed" ELSE "returned"
            /\ UNCHANGED <<cols, selected_column, current_turn, game_over,
                           winner, lock, status_message, placed, drops>>
    /\ handled

\* any other c: the status message is set, draw_ui() paints it, and it is
\* cleared.  bytes([c]).decode("utf-8") raises for a lone byte >= 0x80.
KeyUnknown ==
    /\ getch("unknown")
    /\ \E c \in UnknownKeys :
        IF 128 <= c /\ c < 255 THEN
            Frame("unknown", "Raised", lock, status_message, "crashed")
        ELSE IF Raises(draw_ui_calls(screen_size[1], screen_size[2],
                                     <<"Unknown input", c>>),
                       screen_size[1], screen_size[2]) THEN
            Frame("unknown", "Raised", lock, <<"Unknown input", c>>, "crashed")
        ELSE
            Frame("unknown", "None", lock, NoStatus, "returned")
    /\ handled

\* KeyboardInterrupt or EOFError out of getch, inside main's try block:
\* "except (KeyboardInterrupt, EOFError)" runs cleanup() and main returns
Interrupt ==
    /\ pc = "getch"
    /\ Frame("interrupt", "None", lock, status_message, "exited")
    /\ cleanups' = cleanups + 1
    /\ UNCHANGED typeahead
    /\ drawn' = {}

\* SIGINT while the animation of an accepted drop sleeps in asyncio.sleep.
\* It surfaces there either as KeyboardInterrupt, which main catches, or,
\* where asyncio.run answers the signal by cancelling the main task, as
\* CancelledError, which neither except clause of main catches.  The lock is
\* set and the token is not written.
InterruptDrop ==
    /\ getch("enter")
    /\ ~lock
    /\ cols[selected_column][BOARD_HEIGHT - 1] = None
    /\ animation_layers = {"ui", "board", "token"}
    /\ \E caught \in BOOLEAN :
        /\ Frame("drop_token", "Interrupted", TRUE, status_message,
                 IF caught THEN "exited" ELSE "crashed")
        /\ cleanups' = IF caught THEN cleanups + 1 ELSE cleanups
    /\ typeahead' = <<>>
    /\ drawn' = animation_layers

\* main's loop: get_input returned False, so it is called again and blocks
\* in getch
Loop ==
    /\ pc = "returned"
    /\ pc' = "getch"
    /\ op' = "none"
    /\ result' = "None"
    /\ detected' = <<>>
    /\ drawn' = {}
    /\ UNCHANGED <<cols, selected_column, current_turn, game_over, winner,
                   lock, status_message, screen_size, placed, drops,
                   typeahead, cleanups>>

Next ==
    \/ KeyLeft
    \/ KeyRight
    \/ KeyEnter
    \/ KeySpace
    \/ KeyQuit
    \/ KeyResize
    \/ KeyUnknown
    \/ Interrupt
    \/ InterruptDrop
    \/ Loop

Spec == Init /\ [][Next]_vars

\* ------------------------------------------------------------ played games
\* Recorded games, each the columns dropped into in order, the two players
\* alternating.  No line of four exists before a game's last move.  Game g
\* for g <= 69 ends with the move that completes the g-th of the board's 69
\* lines of four; game 70 fills the board without a line; game 71 fills the
\* board and its last move completes a line.
Games == <<
    <<3, 6, 0, 0, 2, 0, 1>>,
    <<2, 2, 2, 0, 6, 6, 3, 0, 3, 5, 3, 0, 5, 0>>,
    <<0, 6, 6, 4, 6, 2, 0, 2, 2, 6, 6, 4, 1, 4, 1, 3, 3, 1, 1, 2, 2, 0, 0, 0,
    3, 2, 3>>,
    <<1, 1, 0, 0, 5, 5, 3, 3, 4, 5, 5, 2, 5, 2>>,
    <<6, 0, 2, 5, 1, 1, 0, 3, 0, 3, 2, 6, 2, 1, 0, 2, 0>>,
    <<0, 0, 6, 3, 5, 1, 3, 1, 2, 1, 0, 2, 3, 5, 1, 6, 3, 4, 1, 3, 2, 2>>,
    <<3, 6, 2, 1, 2, 0, 2, 4, 0, 5, 0, 3, 3, 1, 1>>,
    <<2, 5, 3, 6, 5, 2, 6, 3, 4, 1, 5, 6, 5, 6, 2, 2, 3, 3, 0, 6, 2, 5, 5, 1,
    0, 0, 3, 0, 2, 1, 6, 3, 1, 0, 1, 0>>,
    <<3, 6, 6, 6, 3, 1, 4, 0, 1, 1, 2, 5, 3, 5, 1, 0, 0, 3, 4, 2, 5, 1, 0, 2,
    0, 5, 1, 3, 2, 0, 5, 6, 3, 6, 2>>,
    <<0, 0, 0, 6, 3, 3, 4, 6, 4, 0, 5, 2, 6, 3, 4, 3, 2, 1, 1, 6, 1, 1, 2, 2>>,
    <<3, 0, 4, 0, 3, 6, 5, 4, 4, 4, 0, 5, 0, 2, 2, 6, 5, 0, 5, 0, 5, 3, 6, 4,
    6, 3, 4, 6, 6, 5, 1, 3, 3, 1, 1>>,
    <<3, 4, 0, 3, 1, 1, 3, 4, 4, 4, 6, 2, 6, 4, 2, 1, 3, 3, 2, 5, 0, 2, 1, 1,
    6, 0, 1, 3, 0, 0, 4, 2>>,
    <<0, 1, 5, 0, 2, 6, 4, 1, 6, 2, 2, 0, 1, 5, 1, 5, 0, 1, 0, 1, 4, 2, 4, 3,
    3>>,
    <<5, 1, 2, 5, 1, 5, 3, 6, 0, 5, 2, 0, 3, 4, 1, 1, 0, 1, 1, 0, 3, 3, 3, 0,
    3, 6, 0, 6, 5, 4, 4, 5, 6, 6, 6, 4, 4, 2, 2, 2, 2>>,
    <<5, 2, 5, 5, 5, 6, 3, 0, 6, 1, 6, 1, 3, 4, 3, 4, 2, 2, 2, 0, 0, 1, 1, 4,
    1, 2, 5, 1, 5, 2, 6, 0, 0, 6, 0>>,
    <<1, 1, 4, 4, 3, 0, 2>>,
    <<1, 5, 1, 0, 1, 4, 1>>,
    <<1, 4, 4, 0, 0, 3, 1, 5, 4, 0, 4, 5, 2, 5, 2, 3, 3>>,
    <<4, 1, 1, 2, 4, 1, 6, 3, 6, 1, 2, 5, 3>>,
    <<5, 2, 1, 0, 5, 0, 5, 1, 0, 4, 4, 4, 3, 1, 6, 1, 2, 1>>,
    <<3, 5, 4, 4, 0, 4, 4, 5, 2, 5, 6, 6, 4, 2, 2, 2, 3, 2, 6, 1, 4, 2, 1, 1,
    0, 0, 5, 1, 1, 6, 0, 5, 0, 0, 1, 5, 3, 6, 3>>,
    <<2, 4, 3, 4, 6, 4, 0, 3, 5, 0, 0, 3, 2, 2, 4, 2, 4, 5, 3, 3, 6, 0, 3, 4,
    0, 6, 6, 2, 2, 6, 6, 0, 5, 1, 1, 1>>,
    <<3, 5, 6, 4, 2, 1, 0, 0, 6, 1, 1, 3, 6, 5, 2, 0, 1, 4, 1, 2, 1>>,
    <<1, 1, 1, 4, 6, 1, 1, 0, 4, 3, 2, 2, 2, 5, 2, 5, 6, 2, 5, 5, 5, 0, 4, 2,
    3, 0, 0, 3, 6, 0, 4, 0, 1, 4, 4, 5, 3, 6, 3>>,
    <<4, 6, 3, 5, 0, 1, 1, 0, 1, 4, 5, 1, 2, 4, 3, 4, 2, 5, 0, 2, 5, 2, 6, 2,
    6, 0, 1, 1, 2, 6, 5, 6, 6, 0, 3, 3>>,
    <<0, 2, 4, 5, 0, 5, 4, 0, 2, 3, 6, 1, 3, 5, 2, 0, 0, 3, 3, 4, 2, 6, 5, 4,
    4, 1, 4, 1, 1>>,
    <<4, 5, 3, 4, 1, 5, 4, 4, 1, 4, 3, 5, 6, 0, 4, 6, 6, 6, 1, 2, 6, 3, 3, 6,
    2, 0, 2, 1, 2, 1, 0, 2, 1, 3>>,
    <<2, 5, 3, 4, 1, 3, 2, 2, 5, 6, 5, 2, 2, 4, 6, 1, 1, 4, 6, 0, 1, 1, 2, 3>>,
    <<3, 1, 2, 3, 1, 6, 2, 1, 3, 0, 4, 1, 4, 5, 1, 4, 0, 2, 5, 3, 6, 5, 6, 1,
    0, 2, 4, 4, 2, 2, 6, 5, 0, 4, 3, 3>>,
    <<6, 0, 2, 3, 6, 1, 6, 3, 2, 1, 3, 1, 2, 3, 1, 0, 3, 3, 5, 6, 4, 1, 4, 1,
    5, 6, 6, 0, 5, 4, 0, 4, 0, 4, 4, 2, 0, 2>>,
    <<1, 6, 6, 5, 0, 1, 0, 4, 4, 2, 5, 3>>,
    <<3, 2, 1, 2, 3, 2, 6, 2>>,
    <<2, 2, 6, 4, 3, 5, 3, 6, 0, 6, 6, 2, 2, 6, 5, 4, 5, 1, 6, 1, 5, 5, 4>>,
    <<3, 6, 3, 1, 5, 1, 5, 1, 3, 6, 2, 4, 0, 5, 2, 0, 4>>,
    <<4, 6, 6, 0, 2, 2, 5, 2, 6, 4, 0, 1, 4, 2, 1, 2>>,
    <<4, 1, 3, 2, 0, 4, 2, 5, 1, 3, 3, 1, 6, 1, 4, 1, 2, 0, 1, 0, 0, 2, 4, 3,
    6, 2, 6, 6, 5, 2, 6, 0, 6, 0, 4, 5, 5, 4, 5>>,
    <<4, 1, 1, 2, 0, 2, 6, 2, 1, 5, 6, 5, 1, 5, 3, 6, 2, 6, 6, 2, 6, 2, 4, 4,
    0, 0, 3, 3>>,
    <<5, 5, 1, 4, 2, 6, 5, 1, 3, 1, 1, 2, 2, 0, 3, 0, 1, 0, 0, 4, 2, 5, 2, 3,
    2>>,
    <<6, 6, 5, 2, 0, 4, 6, 4, 3, 0, 5, 4, 5, 5, 2, 0, 3, 3, 2, 1, 2, 5, 4, 0,
    4, 6, 3, 4, 5>>,
    <<1, 4, 1, 1, 3, 1, 2, 6, 1, 6, 1, 2, 3, 5, 4, 4, 5, 4, 4, 5, 3, 5, 2, 2,
    4, 3>>,
    <<5, 0, 0, 3, 2, 1, 6, 4, 3, 5, 4, 5, 3, 2, 2, 6, 2>>,
    <<5, 0, 5, 0, 4, 5, 5, 4, 5, 4, 2, 2, 0, 1, 1, 3, 6, 3, 3, 0, 4, 3, 3, 0,
    5, 0, 4, 3, 1, 2, 4, 2, 2>>,
    <<0, 2, 0, 3, 5, 0, 5, 0, 0, 2, 2, 0, 2, 3, 2, 2, 6, 5, 1, 3, 3, 4, 4, 3,
    4>>,
    <<1, 4, 6, 2, 3, 5, 0, 5, 4, 5, 2, 3, 4, 3, 5, 2, 2, 2, 2, 1, 3, 1, 3, 5,
    3, 4, 5, 6, 0, 4, 4>>,
    <<1, 0, 4, 6, 6, 6, 1, 2, 1, 2, 6, 4, 2, 0, 5, 6, 6, 2, 3, 4, 4, 2, 5, 1,
    5, 0, 2, 4, 4, 3, 0, 1, 3, 1, 3, 0, 3>>,
    <<0, 0, 0, 4, 2, 5, 4, 3, 5, 6>>,
    <<0, 2, 1, 4, 5, 4, 3, 4, 1, 5, 3, 2, 6, 5, 4, 5, 4, 0, 2, 0, 3, 4, 3>>,
    <<6, 4, 2, 4, 2, 3, 1, 5, 0, 1, 3, 4, 4, 1, 0, 1, 2, 2, 1, 0, 5, 5, 2, 6,
    1, 6, 0, 6>>,
    <<5, 3, 6, 0, 4, 2, 1, 4, 2, 3, 0, 6, 0, 5>>,
    <<6, 0, 2, 1, 4, 3, 3, 5, 6, 6, 1, 0, 1, 5, 3, 4, 5, 0, 6, 2, 0, 6, 3, 0,
    3>>,
    <<1, 2, 2, 5, 4, 3, 2, 3, 3, 5, 4, 5, 2, 4, 6, 0, 1, 1, 3, 2, 6, 4, 2, 3,
    0, 0, 6, 4, 3, 6, 4, 6, 1, 5>>,
    <<5, 1, 1, 4, 6, 2, 6, 5, 0, 5, 1, 6, 0, 1, 3, 3, 0, 6, 1, 0, 6, 3, 6, 0,
    0, 4, 1, 4>>,
    <<3, 0, 6, 4, 3, 3, 6, 4, 1, 3, 6, 3, 1, 3>>,
    <<3, 6, 0, 1, 5, 6, 0, 6, 6, 3, 5, 0, 1, 3, 6, 2, 1, 3, 1, 5, 4, 6, 0, 5,
    0, 0, 3, 5, 4, 1, 3, 2, 4, 4>>,
    <<0, 0, 3, 3, 0, 1, 3, 5, 3, 0, 1, 1, 3, 0, 5, 4, 0, 4, 1, 4, 4, 4, 2, 2,
    6, 1, 6, 2, 4, 6, 6, 3, 6, 6, 1, 2, 2, 5, 5>>,
    <<1, 4, 5, 5, 2, 6, 5, 4, 3, 4, 6, 2, 1, 5, 6, 0, 2, 1, 3, 0, 6, 5, 5, 2,
    4, 6, 3, 3>>,
    <<4, 6, 6, 4, 2, 3, 2, 3, 2, 6, 5, 0, 0, 5, 4, 4, 0, 5, 3, 3, 0, 2, 3, 1,
    1, 2, 2, 0, 4, 1, 0, 4, 1, 1, 5, 3, 5, 5, 6, 1, 6>>,
    <<1, 2, 4, 6, 0, 5, 3, 6, 6, 6, 3, 5, 0, 5, 0, 0, 5, 2, 5, 2, 0, 1, 4, 6,
    3, 1, 5, 6, 2, 2, 1, 2, 4, 3, 0, 3, 3, 4>>,
    <<2, 1, 1, 2, 3, 4, 4, 2, 3, 0, 1, 1, 1, 2, 4, 3, 4, 4, 5, 3, 4, 1, 6, 3,
    0, 0, 3, 6, 5, 5, 6, 5, 5, 6, 5, 6, 6>>,
    <<1, 4, 4, 6, 0, 1, 1, 6, 0, 1, 6, 5, 5, 1, 5, 2, 5, 2, 1, 6, 0, 0, 3, 6,
    3, 3, 0, 4, 0, 3, 4, 3, 3, 6, 4>>,
    <<2, 3, 2, 6, 2, 6, 4, 5, 4, 2, 4, 6, 4>>,
    <<2, 1, 2, 5, 3, 5, 5, 0, 2, 0, 4, 0, 5, 4, 3, 4, 6, 3, 3, 4, 3, 4>>,
    <<4, 3, 5, 0, 0, 3, 1, 1, 2, 4, 4, 0, 4, 3, 4, 0, 4>>,
    <<1, 1, 2, 1, 5, 0, 5, 6, 5, 2, 5>>,
    <<1, 6, 3, 1, 6, 5, 5, 3, 5, 4, 0, 2, 3, 3, 5, 1, 5>>,
    <<5, 4, 4, 5, 4, 2, 5, 6, 5, 1, 5, 6, 5>>,
    <<0, 3, 6, 4, 6, 2, 6, 0, 6>>,
    <<5, 4, 4, 3, 6, 4, 4, 6, 1, 6, 5, 6, 5, 6>>,
    <<6, 0, 0, 4, 1, 1, 2, 0, 1, 2, 0, 1, 6, 6, 2, 6, 5, 3, 4, 6, 0, 6>>,
    <<3, 0, 3, 4, 6, 4, 0, 1, 6, 1, 6, 4, 3, 2, 2, 6, 5, 0, 4, 6, 2, 2, 0, 0,
    4, 1, 1, 1, 2, 3, 3, 1, 6, 5, 2, 4, 0, 5, 5, 5, 5, 3>>,
    <<6, 2, 0, 0, 6, 4, 4, 6, 4, 6, 5, 4, 1, 4, 3, 5, 0, 1, 1, 2, 6, 4, 0, 2,
    5, 1, 2, 2, 3, 5, 0, 2, 5, 1, 5, 6, 1, 3, 3, 0, 3, 3>>
>>

DrawGame == Len(Games) - 1
FullWinGame == Len(Games)

\* the board after the first n moves of a game that `first` began, each
\* move written as drop_token writes it
RECURSIVE Replay(_, _, _)
Replay(game, n, first) ==
    IF n = 0 THEN make_board
    ELSE write_token(Replay(game, n - 1, first), game[n],
                     IF n % 2 = 1 THEN first ELSE Other(first))

\* how many of the first n moves went into column c
Count(game, n, c) == Cardinality({k \in 1 .. n : game[k] = c})

\* the state of the program after the first n moves of game g, when none of
\* them ended the round: the board, whose turn it is, the cursor on the
\* column last dropped into
AfterMoves(g, n, first) ==
    /\ cols = Replay(Games[g], n, first)
    /\ selected_column = IF n = 0 THEN BOARD_WIDTH \div 2 ELSE Games[g][n]
    /\ current_turn = IF n % 2 = 0 THEN first ELSE Other(first)
    /\ placed = [c \in ColIdx |-> Count(Games[g], n, c)]
    /\ status_message = NoStatus
    /\ op = "none"
    /\ result = "None"
    /\ detected = <<>>
    /\ drops = 0
    /\ typeahead = <<>>
    /\ cleanups = 0

\* ------------------------------------------------------------ mid-game
\* The program at its start, before main's first draw, and waiting for a
\* key one move before the end of a few recorded games (a line of each
\* orientation about to be completed, the board about to fill).
MidGameIds == {1, 8, 15, 54, 59, DrawGame, FullWinGame}

InitMid ==
    \E g \in MidGameIds, first \in Colors :
        \E n \in {0, Len(Games[g]) - 1} :
            /\ AfterMoves(g, n, first)
            /\ screen_size \in ScreenSizes
            /\ game_over = FALSE
            /\ winner = None
            /\ lock = FALSE
            /\ pc = FirstDraw
            /\ n > 0 => pc = "getch"
            /\ drawn = IF n = 0 THEN draw_layers(screen_size) ELSE {}

SpecMid == InitMid /\ [][Next]_vars

\* ------------------------------------------------------------ detector
\* The win detector as a function of the board: every board of every
\* recorded game, the last ones included, handed to _check_win as
\* drop_token does right after its write.
InitDetect ==
    \E g \in 1 .. Len(Games), first \in Colors :
        \E n \in 0 .. Len(Games[g]) :
            /\ AfterMoves(g, n, first)
            /\ screen_size = <<24, 80>>
            /\ game_over = FALSE
            /\ winner = None
            /\ lock = (n > 0)
            /\ pc = "check"
            /\ drawn = {}

Detect ==
    /\ pc = "check"
    /\ pc' = "checked"
    /\ op' = "_check_win"
    /\ detected' = <<_check_win(cols)>>
    /\ UNCHANGED <<cols, selected_column, current_turn, game_over, winner,
                   lock, status_message, screen_size, result, placed, drops,
                   typeahead, cleanups, drawn>>

SpecDetect == InitDetect /\ [][Detect]_vars

\* ------------------------------------------------------------ properties
\* What the claims speak of, stated on the board itself and independently
\* of the detector's kernels.
Directions == {<<0, 1>>, <<1, 0>>, <<1, 1>>, <<1, 0 - 1>>}

\* color holds n consecutive cells of a line starting at (c, r) towards d
RunAt(board, color, n, c, r, d) ==
    /\ c + (n - 1) * d[1] \in ColIdx
    /\ r + (n - 1) * d[2] \in RowIdx
    /\ \A k \in 0 .. (n - 1) : board[c + k * d[1]][r + k * d[2]] = color

HasRun(board, color, n) ==
    \E c \in ColIdx, r \in RowIdx :
        board[c][r] = color /\ \E d \in Directions : RunAt(board, color, n, c, r, d)

HasFour(board, color) == HasRun(board, color, 4)

AllOccupied(board) == \A c \in ColIdx, r \in RowIdx : board[c][r] # None

Occupied(board) == {p \in ColIdx \X RowIdx : board[p[1]][p[2]] # None}

\* the lowest empty index of a column, as the specification words it
LowestEmpty(col) ==
    CHOOSE r \in RowIdx : col[r] = None /\ \A q \in 0 .. (r - 1) : col[q] # None

Idle == pc = "getch" /\ ~lock /\ ~game_over /\ winner = None

\* C1: a drop issued in Idle on a column that is not full, after which the
\* detector reports no outcome, writes the current turn's color into the
\* lowest empty row of the selected column and nowhere else, flips the turn,
\* leaves the board unlocked and unfinished, and returns True.
C1_DropContinues ==
    [][(/\ Idle
        /\ cols[selected_column][BOARD_HEIGHT - 1] = None
        /\ op' = "drop_token"
        /\ detected' = <<None>>)
       => /\ cols' = [cols EXCEPT
                        ![selected_column][LowestEmpty(cols[selected_column])]
                            = current_turn]
          /\ current_turn' \in Colors \ {current_turn}
          /\ lock' = FALSE
          /\ game_over' = FALSE
          /\ winner' = None
          /\ selected_column' = selected_column
          /\ result' = "True"
          /\ pc' = "returned"]_vars

\* C1 witness: the specification's scenario 1, Red into column 3 of the
\* empty board.
C1_Witness ==
    /\ op = "drop_token" /\ result = "True" /\ detected = <<None>>
    /\ Occupied(cols) = {<<3, 0>>}
    /\ cols[3][0] = RED
    /\ current_turn = YELLOW
    /\ ~lock /\ ~game_over /\ pc = "returned"

\* C2: when the detector reports an outcome after a drop's write, the
\* outcome is stored, the game is over, the lock stays set and the turn is
\* not flipped.
C2_DropFinishes ==
    [][(/\ op' = "drop_token"
        /\ detected' # <<>>
        /\ detected'[1] # None)
       => /\ winner' = detected'[1]
          /\ winner' \in {RED, YELLOW, TIE}
          /\ game_over' = TRUE
          /\ lock' = TRUE
          /\ current_turn' = current_turn
          /\ cols' = [cols EXCEPT
                        ![selected_column][LowestEmpty(cols[selected_column])]
                            = current_turn]
          /\ result' = "True"
          /\ pc' = "returned"]_vars

\* C2 witness: the specification's scenario 3, Red's fourth cell in row 0.
C2_Witness ==
    /\ op = "drop_token" /\ detected = <<RED>>
    /\ \A c \in 0 .. 3 : cols[c][0] = RED
    /\ winner = RED /\ game_over /\ lock /\ current_turn = RED

\* C3: a drop on a full selected column returns False and changes nothing.
C3_FullColumnRefused ==
    [][(/\ pc = "getch"
        /\ cols[selected_column][BOARD_HEIGHT - 1] # None
        /\ op' = "drop_token")
       => /\ result' = "False"
          /\ UNCHANGED <<cols, current_turn, lock, winner, game_over,
                         selected_column, status_message, placed>>]_vars

\* C3 witness: an unlocked board, the cursor on a full column, the drop
\* refused.
C3_Witness ==
    /\ op = "drop_token" /\ result = "False"
    /\ ~lock /\ ~game_over
    /\ \A r \in RowIdx : cols[selected_column][r] # None

\* C4: a reset of a finished round empties every cell, clears outcome, lock
\* and status message, and gives the turn to the color that won; after a
\* tie the turn is either color.
C4_Reset ==
    [][(pc = "getch" /\ game_over /\ op' = "reset")
       => /\ cols' = make_board
          /\ winner' = None
          /\ lock' = FALSE
          /\ game_over' = FALSE
          /\ status_message' = NoStatus
          /\ pc' = "returned"
          /\ current_turn' \in Colors
          /\ (winner \in Colors => current_turn' = winner)]_vars

\* C4 witness: a reset has just run and Red leads the new round.
C4_Witness ==
    /\ op = "reset" /\ pc = "returned"
    /\ Occupied(cols) = {}
    /\ current_turn = RED
    /\ winner = None /\ ~lock /\ ~game_over

\* C5: a color holding four consecutive cells in a line of any of the four
\* orientations makes the detector report a color, and that color when the
\* other one has no such line.
C5_LineDetected ==
    pc = "checked" =>
        \A color \in Colors :
            HasFour(cols, color) =>
                /\ detected[1] \in Colors
                /\ (~HasFour(cols, Other(color)) => detected[1] = color)

\* C5 witness: Yellow holds the anti-diagonal from the top row of column 3
\* down to column 6, and the detector said Yellow.
C5_Witness ==
    /\ pc = "checked" /\ detected = <<YELLOW>>
    /\ \A k \in 0 .. 3 : cols[3 + k][BOARD_HEIGHT - 1 - k] = YELLOW

\* C6: on a board that is not full and holds no four in a line of either
\* color, the detector reports no outcome.
C6_NoFalseWin ==
    (/\ pc = "checked"
     /\ ~AllOccupied(cols)
     /\ ~HasFour(cols, RED)
     /\ ~HasFour(cols, YELLOW))
    => detected = <<None>>

\* C6 witness: both colors hold three in a line, none holds four, and the
\* detector said nothing.
C6_Witness ==
    /\ pc = "checked" /\ detected = <<None>>
    /\ HasRun(cols, RED, 3) /\ HasRun(cols, YELLOW, 3)
    /\ ~HasFour(cols, RED) /\ ~HasFour(cols, YELLOW)
    /\ ~AllOccupied(cols)

\* C7: a full board without four in a line is a tie, the drop that filled
\* it finishes the round with that outcome; a full board with four in a
\* line is that color's win.
C7_DrawPrecedence ==
    AllOccupied(cols) =>
        /\ game_over /\ lock
        /\ IF HasFour(cols, RED) \/ HasFour(cols, YELLOW)
           THEN winner \in Colors /\ HasFour(cols, winner)
           ELSE winner = TIE
        /\ (op = "drop_token" /\ result = "True" => detected = <<winner>>)

\* C7 witness: the drop that filled the board without a line.
C7_Witness ==
    /\ AllOccupied(cols)
    /\ ~HasFour(cols, RED) /\ ~HasFour(cols, YELLOW)
    /\ op = "drop_token" /\ detected = <<TIE>> /\ winner = TIE

\* C8 as claimed: after N placements into a column, _find_column_top
\* returns BOARD_HEIGHT - N, and for a full column a value that is no row
\* index.
C8_AsClaimed ==
    \A c \in ColIdx :
        IF placed[c] < BOARD_HEIGHT
        THEN _find_column_top(cols[c]) = BOARD_HEIGHT - placed[c]
        ELSE _find_column_top(cols[c]) \notin RowIdx

\* C8 amended: after N placements into a column, _find_column_top returns N
\* when N < BOARD_HEIGHT, and for a full column the value 9999, which is no
\* row index.
C8_ColumnTop ==
    /\ NOT_FOUND \notin RowIdx
    /\ \A c \in ColIdx :
        /\ placed[c] \in 0 .. BOARD_HEIGHT
        /\ _find_column_top(cols[c]) =
              IF placed[c] < BOARD_HEIGHT THEN placed[c] ELSE NOT_FOUND

\* C8 witness: after a drop, one column is full and another partly filled.
C8_Witness ==
    /\ op = "drop_token" /\ result = "True"
    /\ \E c, d \in ColIdx :
        /\ placed[c] = BOARD_HEIGHT
        /\ placed[d] \in 1 .. (BOARD_HEIGHT - 1)

\* C9: in every column the occupied cells are a run from index 0, and the
\* board never holds more than BOARD_WIDTH * BOARD_HEIGHT tokens.
C9_Gravity ==
    /\ \A c \in ColIdx, i \in RowIdx :
        cols[c][i] # None => \A j \in 0 .. (i - 1) : cols[c][j] # None
    /\ Cardinality(Occupied(cols)) <= BOARD_WIDTH * BOARD_HEIGHT
    /\ \A c \in ColIdx : placed[c] <= BOARD_HEIGHT

\* C9 witness: a drop landed on top of other tokens.
C9_Witness ==
    /\ op = "drop_token" /\ result = "True"
    /\ placed[selected_column] >= 2
    /\ cols[selected_column][placed[selected_column] - 1] # None

\* C10: _is_full, which looks at the top row only, holds exactly when every
\* column received BOARD_HEIGHT placements, that is when every cell is
\* occupied.
C10_IsFull ==
    /\ _is_full(cols) <=> \A c \in ColIdx : placed[c] = BOARD_HEIGHT
    /\ _is_full(cols) <=> AllOccupied(cols)

\* C10 witness: the board is full.
C10_Witness ==
    /\ _is_full(cols) /\ AllOccupied(cols)
    /\ op = "drop_token" /\ result = "True"

\* C11: while the round is finished, a key other than the space that resets
\* (left, right, Enter, resize, an unknown key, q) leaves the board, the
\* cursor, the turn, the lock and the outcome as they were; the status
\* message is empty whenever the next key is read.
C11_FinishedIgnores ==
    /\ [][(pc = "getch" /\ game_over /\ op' # "reset")
          => UNCHANGED <<cols, selected_column, current_turn, lock, winner,
                         game_over, placed>>]_vars
    /\ [](pc = "getch" => status_message = NoStatus)

\* C11 witness: Enter on a finished round was refused.
C11_Witness ==
    /\ game_over /\ lock /\ winner \in Colors
    /\ op = "drop_token" /\ result = "False" /\ pc = "returned"
    /\ cols[selected_column][BOARD_HEIGHT - 1] = None

\* C13: move_left / move_right change selected_column by exactly -1 / +1
\* and return True only when the board is not locked and the cursor is not
\* at column 0 / column BOARD_WIDTH - 1; otherwise they return False and
\* change nothing.  selected_column stays within 0 .. BOARD_WIDTH - 1, and
\* neither changes the board, the turn, the lock or the outcome.
C13_Select ==
    /\ [](selected_column \in ColIdx)
    /\ [][(pc = "getch" /\ op' = "move_left")
          => /\ IF ~lock /\ selected_column > 0
                THEN selected_column' = selected_column - 1 /\ result' = "True"
                ELSE selected_column' = selected_column /\ result' = "False"
             /\ UNCHANGED <<cols, current_turn, lock, winner, game_over,
                            status_message, placed>>]_vars
    /\ [][(pc = "getch" /\ op' = "move_right")
          => /\ IF ~lock /\ selected_column < BOARD_WIDTH - 1
                THEN selected_column' = selected_column + 1 /\ result' = "True"
                ELSE selected_column' = selected_column /\ result' = "False"
             /\ UNCHANGED <<cols, current_turn, lock, winner, game_over,
                            status_message, placed>>]_vars

\* C13 witness: move_right was refused at the right edge of an unlocked
\* board.
C13_Witness ==
    /\ op = "move_right" /\ result = "False"
    /\ ~lock /\ selected_column = BOARD_WIDTH - 1

\* C12 as claimed: a key typed while a drop's animation runs is dropped: it
\* is not kept for later, and when the drop is over it changes neither the
\* board, the cursor, the turn, the lock nor the outcome.
C12_AsClaimed ==
    [][(pc = "getch" /\ typeahead # <<>>)
       => UNCHANGED <<cols, selected_column, current_turn, lock, winner,
                      game_over>>]_vars

\* C14 as claimed: for every key code that get_input maps to nothing, the
\* handling shows a status message and clears it again, main's loop goes on
\* to read the next key, and the lock, the turn, the outcome, the board and
\* the cursor are as before.
C14_AsClaimed ==
    [][(pc = "getch" /\ op' = "unknown")
       => /\ pc' = "returned"
          /\ status_message' = NoStatus
          /\ "ui" \in drawn'
          /\ UNCHANGED <<cols, selected_column, current_turn, lock, winner,
                         game_over>>]_vars

\* C15 as claimed: on every path by which the process terminates after
\* initscr (q, an interrupt or the end of input, an exception raised at any
\* point, the first draw included), cleanup has released the terminal
\* before, and it released it only once.
C15_AsClaimed ==
    /\ cleanups <= 1
    /\ pc \in {"exited", "crashed"} => cleanups = 1

\* C16 as claimed: a drop that was accepted (the board unlocked, the
\* selected column not full) always runs to its end: the token is painted
\* and written, the detector runs once, drop_token returns True and leaves
\* the board unlocked or the round finished; nothing cancels it.
C16_AsClaimed ==
    [][(/\ pc = "getch"
        /\ ~lock
        /\ cols[selected_column][BOARD_HEIGHT - 1] = None
        /\ op' = "drop_token")
       => /\ result' = "True"
          /\ pc' = "returned"
          /\ "token" \in drawn'
          /\ Len(detected') = 1
          /\ cols'[selected_column][LowestEmpty(cols[selected_column])]
                = current_turn
          /\ (~lock' \/ game_over')]_vars

\* C17: at most one color holds four in a line on any board reached by
\* drops, so the color the detector reports, red being tested before yellow
\* for each kernel, is the only color with a line, and a stored color
\* outcome is that color.
C17_OneWinner ==
    /\ ~(HasFour(cols, RED) /\ HasFour(cols, YELLOW))
    /\ winner \in Colors => HasFour(cols, winner)
    /\ (detected # <<>> /\ detected[1] \in Colors)
        => /\ HasFour(cols, detected[1])
           /\ ~HasFour(cols, Other(detected[1]))
    /\ (detected # <<>> /\ detected[1] \notin Colors)
        => ~HasFour(cols, RED) /\ ~HasFour(cols, YELLOW)

\* C17 witness: a drop gave Yellow four in a line while Red holds three.
C17_Witness ==
    /\ op = "drop_token" /\ detected = <<YELLOW>> /\ winner = YELLOW
    /\ HasFour(cols, YELLOW) /\ HasRun(cols, RED, 3)

\* C18: an occupied cell keeps its color until a reset: no handler other
\* than reset changes an occupied cell, and the write of a drop goes to a
\* row index within 0 .. BOARD_HEIGHT - 1, never to 9999, whose cell was
\* empty just before.
C18_CellsKept ==
    /\ [][op' # "reset"
          => \A c \in ColIdx, r \in RowIdx :
                cols[c][r] # None => cols'[c][r] = cols[c][r]]_vars
    /\ [][(op' = "drop_token" /\ result' = "True")
          => /\ _find_column_top(cols[selected_column]) \in RowIdx
             /\ \E r \in RowIdx :
                   /\ cols[selected_column][r] = None
                   /\ cols' = [cols EXCEPT ![selected_column][r] = current_turn]]_vars
    /\ [][(op' # "reset" /\ ~(op' = "drop_token" /\ result' = "True"))
          => cols' = cols]_vars

\* C18 witness: a drop has written onto a column that held tokens of both
\* colors, which are still there.
C18_Witness ==
    /\ op = "drop_token" /\ result = "True"
    /\ placed[selected_column] >= 3
    /\ \E r, q \in 0 .. (placed[selected_column] - 2) :
          /\ cols[selected_column][r] = RED
          /\ cols[selected_column][q] = YELLOW

\* C19 as claimed: whatever handler paints (the first draw, a cursor move,
\* a drop with its animation, a reset, a resize, an unknown key), on a
\* terminal with fewer than 3 rows or 10 columns it paints nothing, and on
\* one with fewer than DRAWING_HEIGHT + 6 rows or DRAWING_WIDTH + 20 columns
\* it paints the "Screen too small!" message only.
C19_AsClaimed ==
    /\ (screen_size[1] < 3 \/ screen_size[2] < 10) => drawn = {}
    /\ (screen_size[1] < DRAWING_HEIGHT + 6 \/ screen_size[2] < DRAWING_WIDTH + 20)
        => drawn \subseteq {"message"}

\* C20: when a drop ends with a color win, the winner reported and stored
\* is the color of the token just written, the turn's color when the drop
\* was accepted; the turn stays with it, and the reset that follows gives
\* the lead to that same color.
C20_WinnerIsMover ==
    /\ [][(op' = "drop_token" /\ detected' # <<>> /\ detected'[1] \in Colors)
          => /\ detected'[1] = current_turn
             /\ winner' = current_turn
             /\ current_turn' = current_turn
             /\ cols'[selected_column][LowestEmpty(cols[selected_column])]
                   = current_turn]_vars
    /\ [][(op' = "reset" /\ winner \in Colors)
          => current_turn = winner /\ current_turn' = winner]_vars

\* C20 witness: Yellow's drop won, and the token on top of the cursor's
\* column is Yellow's.
C20_Witness ==
    /\ op = "drop_token" /\ detected = <<YELLOW>>
    /\ winner = YELLOW /\ current_turn = YELLOW /\ game_over
    /\ cols[selected_column][placed[selected_column] - 1] = YELLOW

\* C21: whenever main waits for a key, game_over holds exactly when winner
\* is set (RED, YELLOW or the tie value -1), lock equals game_over, and
\* current_turn is RED or YELLOW.
C21_WaitingState ==
    pc = "getch" =>
        /\ game_over <=> winner # None
        /\ winner \in {None, RED, YELLOW, TIE}
        /\ lock = game_over
        /\ current_turn \in Colors

\* C21 witness: main waits for a key on a round that ended in a tie.
C21_Witness ==
    /\ pc = "getch" /\ game_over /\ lock /\ winner = TIE

\* how many cells of the board hold the color
Tokens(board, color) ==
    Cardinality({p \in ColIdx \X RowIdx : board[p[1]][p[2]] = color})

\* C22: in every state the numbers of red and yellow tokens on the board
\* differ by at most 1, and whenever main waits for a key on an unlocked,
\* unfinished board, the color whose turn it is has no more tokens on the
\* board than the other color.
C22_Alternation ==
    /\ Tokens(cols, RED) - Tokens(cols, YELLOW) \in {0 - 1, 0, 1}
    /\ Idle =>
          /\ current_turn = RED => Tokens(cols, RED) <= Tokens(cols, YELLOW)
          /\ current_turn = YELLOW => Tokens(cols, YELLOW) <= Tokens(cols, RED)

\* C22 witness: two drops into the empty board, one of each color, and it
\* is the turn of the color that dropped first.
C22_Witness ==
    /\ Idle /\ drops = 2
    /\ Tokens(cols, RED) = 1 /\ Tokens(cols, YELLOW) = 1

\* C23: whenever main waits for a key on an unlocked board without an
\* outcome, the board is not full and some column accepts a drop; once the
\* last empty cell is occupied the round is finished; and a round holds at
\* most BOARD_WIDTH * BOARD_HEIGHT written tokens, one per successful drop.
C23_RoundEnds ==
    /\ Idle => \E c \in ColIdx : cols[c][BOARD_HEIGHT - 1] = None
    /\ Idle => Cardinality(Occupied(cols)) < BOARD_WIDTH * BOARD_HEIGHT
    /\ Cardinality(Occupied(cols)) = BOARD_WIDTH * BOARD_HEIGHT
        => game_over /\ winner # None /\ ~Idle
    /\ Cardinality(Occupied(cols)) <= BOARD_WIDTH * BOARD_HEIGHT
    /\ \A c \in ColIdx :
          Cardinality({r \in RowIdx : cols[c][r] # None}) = placed[c]

\* C23 witness: the drop into the last empty cell has just finished the
\* round, here with a line for the color that dropped.
C23_Witness ==
    /\ op = "drop_token" /\ result = "True" /\ drops >= 1
    /\ Cardinality(Occupied(cols)) = BOARD_WIDTH * BOARD_HEIGHT
    /\ game_over /\ lock /\ winner \in Colors

\* C24: reset leaves selected_column where it was when the round ended; it
\* does not put the cursor back on column BOARD_WIDTH \div 2, which only
\* the construction of the board does.
C24_ResetKeepsCursor ==
    /\ cols = make_board => selected_column = BOARD_WIDTH \div 2
    /\ [][op' = "reset" => selected_column' = selected_column]_vars

\* C24 witness: a reset has just run and the cursor is on the last column.
C24_Witness ==
    /\ op = "reset" /\ result = "None"
    /\ cols = make_board
    /\ selected_column = BOARD_WIDTH - 1

====
